---- MODULE Spec2Model ----
(***************************************************************************)
(* Model of scripts/ingest.py: one run of main() reads a CSV into a       *)
(* DataFrame, validates the columns, converts datetime columns to text    *)
(* and writes data.json, columns.json and metadata.json.                  *)
(*                                                                         *)
(* A cell value is a pair <<kind, text>> of strings:                       *)
(*   <<"int","1">>  <<"float","9.5">>  <<"float","nan">> (NaN)             *)
(*   <<"str","Bob">>  <<"bool","True">>  <<"none","">> (Python None)       *)
(*   <<"ts","2023-01-01 00:00:00">> (Timestamp)  <<"nat","">> (NaT)        *)
(* A DataFrame is [columns, dtypes, values, nrows], values[j][i] being the *)
(* cell of column j in row i.                                              *)
(***************************************************************************)
EXTENDS Integers, Sequences, FiniteSets, TLC

VARIABLES
    source,        \* the CSV behind args.input
    required,      \* args.required_columns
    pc,            \* position of main()
    df,            \* the DataFrame of main()
    outDir,        \* TRUE when the directory args.out exists
    dataJson,      \* the file data.json
    columnsJson,   \* the file columns.json
    metadataJson,  \* the file metadata.json
    written,       \* files whose write_json returned in this run, in order
    dirMade,       \* TRUE when os.makedirs of this run created the directory
    status,        \* "running", "success" (exit 0) or "failure" (exit non-zero)
    error,         \* the error that ended the run
    missing,       \* the list reported with the missing-columns error
    clock,         \* datetime.utcnow()
    run            \* number of the current invocation

vars == <<source, required, pc, df, outDir, dataJson, columnsJson, metadataJson,
          written, dirMade, status, error, missing, clock, run>>

(***************************************************************************)
(* Bounds of the input space.                                              *)
(***************************************************************************)
MaxRows == 2
MaxCols == 2
MaxRuns == 2

ColNames == {"x", "site_id"}

RequiredChoices ==
    {<<>>, <<"x">>, <<"site_id", "x">>, <<"z", "site_id">>, <<"x.1">>}

(***************************************************************************)
(* Helpers over sequences.                                                 *)
(***************************************************************************)
Range(s) == {s[i] : i \in 1..Len(s)}

SeqsUpTo(S, lo, hi) == UNION {[1..n -> S] : n \in lo..hi}

NoValue == <<"float", "nan">>

PyNone == <<"none", "">>

NaT == <<"nat", "">>

EmptyFrame == [columns |-> <<>>, dtypes |-> <<>>, values |-> <<>>, nrows |-> 0]

(***************************************************************************)
(* CSV text.  A source is [state, header, rows]; rows[i][j] is the text of *)
(* field j on data line i, "" for an empty field.                          *)
(***************************************************************************)
IntTexts == {"1", "2"}

FloatTexts == {"9.5", "0.25"}

BoolTexts == {"True", "False"}

Kinds == <<"int", "float", "text", "date", "bool">>

TokenTable ==
    [int   |-> <<"1", "2">>,
     float |-> <<"9.5", "0.25">>,
     text  |-> <<"Alice", "Bob">>,
     date  |-> <<"2023-01-01", "2023-02-15">>,
     bool  |-> <<"True", "False">>]

Token(kind, i) == TokenTable[kind][((i - 1) % 2) + 1]

KindAt(k0, j) == Kinds[((k0 + j - 2) % Len(Kinds)) + 1]

\* The CSV with the given header, n data lines, column j holding values of
\* kind KindAt(k0, j), and the field miss = <<i, j>> left empty.
Csv(header, k0, n, miss) ==
    [state  |-> "ok",
     header |-> header,
     rows   |-> [i \in 1..n |->
                  [j \in 1..Len(header) |->
                      IF miss = <<i, j>> THEN "" ELSE Token(KindAt(k0, j), i)]]]

Unavailable == [state |-> "unavailable", header |-> <<>>, rows |-> <<>>]

EmptyFile == [state |-> "empty", header |-> <<>>, rows |-> <<>>]

Sources ==
    {Unavailable, EmptyFile} \cup
    {Csv(h, k0, n, miss) :
        h \in SeqsUpTo(ColNames, 1, MaxCols),
        k0 \in 1..Len(Kinds),
        n \in 0..MaxRows,
        miss \in {<<0, 0>>} \cup ((1..MaxRows) \X (1..MaxCols))}

(***************************************************************************)
(* pandas.read_csv with its defaults, as called by read_csv.               *)
(***************************************************************************)
\* Duplicate header names are renamed: the k-th repeat of "x" becomes "x.k".
Earlier(header, i) == Cardinality({k \in 1..(i - 1) : header[k] = header[i]})

MangleDupes(header) ==
    [i \in 1..Len(header) |->
        IF Earlier(header, i) = 0 THEN header[i]
        ELSE header[i] \o "." \o ToString(Earlier(header, i))]

\* skip_blank_lines: a line with no text at all is not a row.
IsBlankLine(row) == Len(row) = 1 /\ row[1] = ""

NotBlankLine(row) == ~IsBlankLine(row)

Present(raw) == {raw[i] : i \in {k \in 1..Len(raw) : raw[k] # ""}}

HasNA(raw) == \E i \in 1..Len(raw) : raw[i] = ""

InferDtype(raw) ==
    IF Len(raw) = 0 THEN "object"
    ELSE IF Present(raw) = {} THEN "float64"
    ELSE IF Present(raw) \subseteq IntTexts
        THEN (IF HasNA(raw) THEN "float64" ELSE "int64")
    ELSE IF Present(raw) \subseteq (IntTexts \cup FloatTexts) THEN "float64"
    ELSE IF Present(raw) \subseteq BoolTexts
        THEN (IF HasNA(raw) THEN "object" ELSE "bool")
    ELSE "object"

FloatRepr(tok) == IF tok \in IntTexts THEN tok \o ".0" ELSE tok

ParseCell(raw, tok) ==
    IF tok = "" THEN NoValue
    ELSE IF InferDtype(raw) = "int64" THEN <<"int", tok>>
    ELSE IF InferDtype(raw) = "float64" THEN <<"float", FloatRepr(tok)>>
    ELSE IF Present(raw) \subseteq BoolTexts THEN <<"bool", tok>>
    ELSE <<"str", tok>>

RawColumn(lines, j) == [i \in 1..Len(lines) |-> lines[i][j]]

ParseCsv(src) ==
    LET lines == SelectSeq(src.rows, NotBlankLine)
        m     == Len(src.header)
    IN  [columns |-> MangleDupes(src.header),
         dtypes  |-> [j \in 1..m |-> InferDtype(RawColumn(lines, j))],
         values  |-> [j \in 1..m |->
                        [i \in 1..Len(lines) |->
                            ParseCell(RawColumn(lines, j), lines[i][j])]],
         nrows   |-> Len(lines)]

read_csv(src) == ParseCsv(src)

(***************************************************************************)
(* Helpers of main(): dtype tests, strftime, where, to_dict, json.dump.    *)
(***************************************************************************)
DatetimeDtypes == {"datetime64[ns]", "datetime64[ns, UTC]"}

is_datetime64_any_dtype(dtype) == dtype \in DatetimeDtypes

\* Timestamp.strftime("%Y-%m-%dT%H:%M:%SZ"): fractional seconds are dropped.
StrftimeTable ==
    [a |-> [ts |-> "2023-01-01 00:00:00",        text |-> "2023-01-01T00:00:00Z"],
     b |-> [ts |-> "2023-02-15 12:30:45.500000", text |-> "2023-02-15T12:30:45Z"]]

Timestamps == {StrftimeTable[k].ts : k \in DOMAIN StrftimeTable}

IsoTexts == {StrftimeTable[k].text : k \in DOMAIN StrftimeTable}

strftime(cell) ==
    IF cell[1] = "ts"
    THEN <<"str", StrftimeTable[CHOOSE k \in DOMAIN StrftimeTable :
                                    StrftimeTable[k].ts = cell[2]].text>>
    ELSE NoValue

\* A conversion applied to every column that is not numeric.
ConvertColumnAll(frame, j) ==
    IF frame.dtypes[j] \in {"int64", "float64", "bool"}
    THEN [dtype |-> frame.dtypes[j], values |-> frame.values[j]]
    ELSE [dtype  |-> "object",
          values |-> [i \in 1..frame.nrows |-> strftime(frame.values[j][i])]]

\* df[c] = df[c].dt.strftime(...) for every datetime column c.
ConvertColumn(frame, j) ==
    IF is_datetime64_any_dtype(frame.dtypes[j])
    THEN [dtype  |-> "object",
          values |-> [i \in 1..frame.nrows |-> strftime(frame.values[j][i])]]
    ELSE [dtype |-> frame.dtypes[j], values |-> frame.values[j]]

ConvertDatetimeColumns(frame) ==
    [frame EXCEPT
        !.dtypes = [j \in 1..Len(frame.columns) |-> ConvertColumn(frame, j).dtype],
        !.values = [j \in 1..Len(frame.columns) |-> ConvertColumn(frame, j).values]]

IsNull(cell) == cell \in {NoValue, PyNone, NaT}

\* df.where(pd.notnull(df), None): in a column of a numpy numeric or datetime
\* dtype None stands for the dtype's own missing value, so the cell keeps it;
\* in an object column the cell becomes None.
WhereCell(dtype, cell) ==
    IF ~IsNull(cell) THEN cell
    ELSE IF dtype = "float64" THEN NoValue
    ELSE IF dtype \in DatetimeDtypes THEN NaT
    ELSE PyNone

WhereNotNull(frame) ==
    [frame EXCEPT
        !.values = [j \in 1..Len(frame.columns) |->
                      [i \in 1..frame.nrows |->
                          WhereCell(frame.dtypes[j], frame.values[j][i])]]]

\* dict(zip(keys, vals)): a repeated key keeps its first place and its last value.
FirstAt(keys, j) == \A k \in 1..(j - 1) : keys[k] # keys[j]

LastOf(keys, j) ==
    CHOOSE k \in j..Len(keys) :
        keys[k] = keys[j] /\ \A l \in (k + 1)..Len(keys) : keys[l] # keys[j]

RECURSIVE DictFrom(_, _, _)
DictFrom(keys, vals, j) ==
    IF j > Len(keys) THEN <<>>
    ELSE IF FirstAt(keys, j)
        THEN <<<<keys[j], vals[LastOf(keys, j)]>>>> \o DictFrom(keys, vals, j + 1)
    ELSE DictFrom(keys, vals, j + 1)

Dict(keys, vals) == DictFrom(keys, vals, 1)

Row(frame, i) == [j \in 1..Len(frame.columns) |-> frame.values[j][i]]

\* to_dict that loses the last row.
to_dict_records_short(frame) ==
    [i \in 1..(frame.nrows - 1) |-> Dict(frame.columns, Row(frame, i))]

\* df.to_dict(orient="records")
to_dict_records(frame) ==
    [i \in 1..frame.nrows |-> Dict(frame.columns, Row(frame, i))]

\* json.dump of one Python value (allow_nan is left at its default).
JsonValue(cell) ==
    IF cell = PyNone THEN "null"
    ELSE IF cell = NoValue THEN "NaN"
    ELSE IF cell[1] = "bool" THEN (IF cell[2] = "True" THEN "true" ELSE "false")
    ELSE IF cell[1] = "str" THEN "\"" \o cell[2] \o "\""
    ELSE cell[2]

JsonObject(d) == [k \in 1..Len(d) |-> <<d[k][1], JsonValue(d[k][2])>>]

JsonArray(ds) == [i \in 1..Len(ds) |-> JsonObject(ds[i])]

(***************************************************************************)
(* infer_tabulator_columns and make_metadata.                              *)
(***************************************************************************)
\* str(dtype) contains 'int' or 'float'
NumberDtypes == {"int64", "float64"}

\* str(dtype) contains 'datetime' or 'date'
DateDtypes == DatetimeDtypes

Sorter(dtype) ==
    IF dtype \in NumberDtypes THEN "number"
    ELSE IF dtype \in DateDtypes THEN "date"
    ELSE "string"

WithSuffix(base, k) == IF k = 0 THEN base ELSE base \o "." \o ToString(k)

TitleBase == [c \in ColNames |-> IF c = "site_id" THEN "Site Id" ELSE "X"]

\* col.replace("_", " ").title()
Title(col) ==
    LET p == CHOOSE q \in ColNames \X (0..MaxCols) : col = WithSuffix(q[1], q[2])
    IN  WithSuffix(TitleBase[p[1]], p[2])

ColDef(frame, j) ==
    <<  <<"title", <<"str", Title(frame.columns[j])>> >>,
        <<"field", <<"str", frame.columns[j]>> >>,
        <<"headerFilter", <<"bool", "True">> >>,
        <<"hozAlign", <<"str", "left">> >>,
        <<"sorter", <<"str", Sorter(frame.dtypes[j])>> >>,
        <<"download", <<"bool", "True">> >>,
        <<"width", PyNone>>  >>

infer_tabulator_columns(frame) ==
    [j \in 1..Len(frame.columns) |-> ColDef(frame, j)]

Args ==
    [input |-> "data/my_study_data.csv", citation |-> "Doe 2023", license |-> "CC-BY 4.0",
     doi |-> "", contact |-> "", notes |-> ""]

make_metadata(frame, now) ==
    <<  <<"generated_at", <<"str", ToString(now) \o "Z">> >>,
        <<"source_filename", <<"str", "my_study_data.csv">> >>,
        <<"n_rows", <<"int", ToString(frame.nrows)>> >>,
        <<"n_columns", <<"int", ToString(Len(frame.columns))>> >>,
        <<"citation", <<"str", Args.citation>> >>,
        <<"license", <<"str", Args.license>> >>,
        <<"doi", <<"str", Args.doi>> >>,
        <<"contact", <<"str", Args.contact>> >>,
        <<"notes", <<"str", Args.notes>> >>  >>

(***************************************************************************)
(* write_json: open(outpath, "w") then json.dump.                          *)
(***************************************************************************)
Absent == [state |-> "absent", doc |-> <<>>]

WriteOutcomes == {"ok", "open_fails", "dump_fails"}

\* write_json that opens the file in append mode.
write_json_append(file, doc, outcome) ==
    IF outcome = "ok" THEN [state |-> "complete", doc |-> file.doc \o doc]
    ELSE IF outcome = "dump_fails" THEN [state |-> "partial", doc |-> file.doc]
    ELSE file

write_json(file, doc, outcome) ==
    IF outcome = "ok" THEN [state |-> "complete", doc |-> doc]
    ELSE IF outcome = "dump_fails" THEN [state |-> "partial", doc |-> <<>>]
    ELSE file

(***************************************************************************)
(* main(), one action per stage.                                           *)
(***************************************************************************)
Abort(err) ==
    /\ pc' = "exit"
    /\ status' = "failure"
    /\ error' = err

Init ==
    /\ source \in Sources
    /\ required \in RequiredChoices
    /\ pc = "read_csv"
    /\ df = EmptyFrame
    /\ outDir = FALSE
    /\ dataJson = Absent
    /\ columnsJson = Absent
    /\ metadataJson = Absent
    /\ written = <<>>
    /\ dirMade = FALSE
    /\ status = "running"
    /\ error = "none"
    /\ missing = <<>>
    /\ clock = 0
    /\ run = 1

\* df = read_csv(args.input)
ReadCsv ==
    /\ pc = "read_csv"
    /\ IF source.state = "ok"
       THEN /\ df' = read_csv(source)
            /\ pc' = "check_required"
            /\ UNCHANGED <<status, error>>
       ELSE /\ Abort(IF source.state = "empty" THEN "ParseError"
                     ELSE "SourceUnavailable")
            /\ UNCHANGED df
    /\ UNCHANGED <<source, required, outDir, dataJson, columnsJson, metadataJson,
                   written, dirMade, missing, clock, run>>

\* missing = [c for c in args.required_columns if c not in df.columns]
IsAbsent(c) == c \notin Range(df.columns)

\* A check that stops at the first absent name.
FirstMissingColumn ==
    IF SelectSeq(required, IsAbsent) = <<>> THEN <<>>
    ELSE <<Head(SelectSeq(required, IsAbsent))>>

MissingColumns == SelectSeq(required, IsAbsent)

\* A validation that runs after the output directory is created.
CheckRequiredAfterMakedirs ==
    /\ pc = "check_required"
    /\ missing' = MissingColumns
    /\ outDir' = TRUE
    /\ dirMade' = ~outDir
    /\ IF MissingColumns # <<>>
       THEN Abort("MissingColumns")
       ELSE /\ pc' = "check_duplicates"
            /\ UNCHANGED <<status, error>>
    /\ UNCHANGED <<source, required, df, dataJson, columnsJson,
                   metadataJson, written, clock, run>>

CheckRequired ==
    /\ pc = "check_required"
    /\ missing' = MissingColumns
    /\ IF MissingColumns # <<>>
       THEN Abort("MissingColumns")
       ELSE /\ pc' = "check_duplicates"
            /\ UNCHANGED <<status, error>>
    /\ UNCHANGED <<source, required, df, outDir, dataJson, columnsJson,
                   metadataJson, written, dirMade, clock, run>>

\* df.columns.duplicated().any()
HasDuplicates(columns) ==
    \E i, j \in 1..Len(columns) : i < j /\ columns[i] = columns[j]

CheckDuplicates ==
    /\ pc = "check_duplicates"
    /\ IF HasDuplicates(df.columns)
       THEN Abort("DuplicateColumns")
       ELSE /\ pc' = "convert"
            /\ UNCHANGED <<status, error>>
    /\ UNCHANGED <<source, required, df, outDir, dataJson, columnsJson,
                   metadataJson, written, dirMade, missing, clock, run>>

\* for c in df.columns: if is_datetime64_any_dtype(df[c]): df[c] = ...
ConvertDatetimes ==
    /\ pc = "convert"
    /\ df' = ConvertDatetimeColumns(df)
    /\ pc' = "makedirs"
    /\ UNCHANGED <<source, required, outDir, dataJson, columnsJson, metadataJson,
                   written, dirMade, status, error, missing, clock, run>>

\* os.makedirs(args.out, exist_ok=True)
MakeDirs ==
    /\ pc = "makedirs"
    /\ \E created \in BOOLEAN :
          IF outDir \/ created
          THEN /\ outDir' = TRUE
               /\ dirMade' = ~outDir
               /\ pc' = "write_data"
               /\ UNCHANGED <<status, error>>
          ELSE /\ Abort("OSError")
               /\ UNCHANGED <<outDir, dirMade>>
    /\ UNCHANGED <<source, required, df, dataJson, columnsJson, metadataJson,
                   written, missing, clock, run>>

DataDoc(frame) == JsonArray(to_dict_records(WhereNotNull(frame)))

ColumnsDoc(frame) == JsonArray(infer_tabulator_columns(frame))

MetadataDoc(frame, now) == JsonObject(make_metadata(frame, now))

\* A write whose error is swallowed: the run goes on as if it had written.
AfterWriteSwallow(outcome, name, next) ==
    /\ written' = IF outcome = "ok" THEN Append(written, name) ELSE written
    /\ pc' = next
    /\ IF next = "exit"
       THEN status' = "success" /\ UNCHANGED error
       ELSE UNCHANGED <<status, error>>

\* The control flow after one write_json call.
AfterWrite(outcome, name, next) ==
    IF outcome = "ok"
    THEN /\ written' = Append(written, name)
         /\ pc' = next
         /\ IF next = "exit"
            THEN status' = "success" /\ UNCHANGED error
            ELSE UNCHANGED <<status, error>>
    ELSE /\ Abort("OSError")
         /\ UNCHANGED written

WriteData ==
    /\ pc = "write_data"
    /\ \E outcome \in WriteOutcomes :
          /\ dataJson' = write_json(dataJson, DataDoc(df), outcome)
          /\ AfterWrite(outcome, "data.json", "write_columns")
    /\ UNCHANGED <<source, required, df, outDir, columnsJson, metadataJson,
                   dirMade, missing, clock, run>>

\* A columns write that removes data.json again when it fails.
WriteColumnsRollback ==
    /\ pc = "write_columns"
    /\ \E outcome \in WriteOutcomes :
          /\ columnsJson' = write_json(columnsJson, ColumnsDoc(df), outcome)
          /\ dataJson' = IF outcome = "ok" THEN dataJson ELSE Absent
          /\ AfterWrite(outcome, "columns.json", "write_metadata")
    /\ UNCHANGED <<source, required, df, outDir, metadataJson,
                   dirMade, missing, clock, run>>

WriteColumns ==
    /\ pc = "write_columns"
    /\ \E outcome \in WriteOutcomes :
          /\ columnsJson' = write_json(columnsJson, ColumnsDoc(df), outcome)
          /\ AfterWrite(outcome, "columns.json", "write_metadata")
    /\ UNCHANGED <<source, required, df, outDir, dataJson, metadataJson,
                   dirMade, missing, clock, run>>

WriteMetadata ==
    /\ pc = "write_metadata"
    /\ clock' = clock + 1
    /\ \E outcome \in WriteOutcomes :
          /\ metadataJson' = write_json(metadataJson, MetadataDoc(df, clock), outcome)
          /\ AfterWrite(outcome, "metadata.json", "exit")
    /\ UNCHANGED <<source, required, df, outDir, dataJson, columnsJson,
                   dirMade, missing, run>>

\* The invoker runs the script again with the same arguments.
Rerun ==
    /\ pc = "exit"
    /\ run < MaxRuns
    /\ run' = run + 1
    /\ pc' = "read_csv"
    /\ df' = EmptyFrame
    /\ written' = <<>>
    /\ dirMade' = FALSE
    /\ status' = "running"
    /\ error' = "none"
    /\ missing' = <<>>
    /\ UNCHANGED <<source, required, outDir, dataJson, columnsJson, metadataJson,
                   clock>>

Next ==
    \/ ReadCsv
    \/ CheckRequired
    \/ CheckDuplicates
    \/ ConvertDatetimes
    \/ MakeDirs
    \/ WriteData
    \/ WriteColumns
    \/ WriteMetadata
    \/ Rerun

Spec == Init /\ [][Next]_vars

(***************************************************************************)
(* The stages after the Loader, started from any table: the DataFrames     *)
(* main() handles include ones with datetime columns and repeated names.   *)
(***************************************************************************)
DatetimeDtypeAt(j) == IF j % 2 = 1 THEN "datetime64[ns]" ELSE "datetime64[ns, UTC]"

TimestampAt(i) == IF i % 2 = 1 THEN StrftimeTable.a.ts ELSE StrftimeTable.b.ts

TableColumn(kind, j, n, miss) ==
    LET raw == [i \in 1..n |-> IF miss = <<i, j>> THEN "" ELSE Token(kind, i)]
    IN  IF kind = "date"
        THEN [dtype  |-> DatetimeDtypeAt(j),
              values |-> [i \in 1..n |->
                            IF raw[i] = "" THEN NaT ELSE <<"ts", TimestampAt(i)>>]]
        ELSE [dtype  |-> InferDtype(raw),
              values |-> [i \in 1..n |-> ParseCell(raw, raw[i])]]

Table(header, k0, n, miss) ==
    [columns |-> header,
     dtypes  |-> [j \in 1..Len(header) |->
                    TableColumn(KindAt(k0, j), j, n, miss).dtype],
     values  |-> [j \in 1..Len(header) |->
                    TableColumn(KindAt(k0, j), j, n, miss).values],
     nrows   |-> n]

Tables ==
    {Table(h, k0, n, miss) :
        h \in SeqsUpTo(ColNames, 1, MaxCols),
        k0 \in 1..Len(Kinds),
        n \in 0..MaxRows,
        miss \in {<<0, 0>>} \cup ((1..MaxRows) \X (1..MaxCols))}

InMemory == [state |-> "table", header |-> <<>>, rows |-> <<>>]

InitTable ==
    /\ source = InMemory
    /\ required \in RequiredChoices
    /\ pc = "check_required"
    /\ df \in Tables
    /\ outDir = FALSE
    /\ dataJson = Absent
    /\ columnsJson = Absent
    /\ metadataJson = Absent
    /\ written = <<>>
    /\ dirMade = FALSE
    /\ status = "running"
    /\ error = "none"
    /\ missing = <<>>
    /\ clock = 0
    /\ run = 1

NextTable ==
    \/ CheckRequired
    \/ CheckDuplicates
    \/ ConvertDatetimes
    \/ MakeDirs
    \/ WriteData
    \/ WriteColumns
    \/ WriteMetadata

SpecTable == InitTable /\ [][NextTable]_vars

(***************************************************************************)
(* Properties.                                                             *)
(***************************************************************************)
EmitOrder == <<"data.json", "columns.json", "metadata.json">>

File(name) ==
    IF name = "data.json" THEN dataJson
    ELSE IF name = "columns.json" THEN columnsJson
    ELSE metadataJson

EarlyErrors ==
    {"SourceUnavailable", "ParseError", "MissingColumns", "DuplicateColumns"}

Field(obj, key) == obj[CHOOSE k \in 1..Len(obj) : obj[k][1] = key][2]

\* C1: a run that aborts in the Loader or the Validator has written no file
\* and has not created the output directory.
C1_NoOutputOnEarlyAbort ==
    (pc = "exit" /\ error \in EarlyErrors) =>
        /\ written = <<>>
        /\ dirMade = FALSE
        /\ status = "failure"
        /\ run = 1 => (/\ outDir = FALSE
                       /\ dataJson = Absent
                       /\ columnsJson = Absent
                       /\ metadataJson = Absent)

C1_Witness == pc = "exit" /\ error = "MissingColumns" /\ run = 1

\* C2: the run aborts with the missing-columns error exactly when a required
\* name is not a column, and the reported list is the absent required names,
\* all of them, in the order the invoker gave them.
AbsentAt == {i \in 1..Len(required) : required[i] \notin Range(df.columns)}

NthAbsent(k) == CHOOSE i \in AbsentAt : Cardinality({l \in AbsentAt : l < i}) = k - 1

C2_MissingColumnsExact ==
    (pc \notin {"read_csv", "check_required"}
        /\ error \notin {"SourceUnavailable", "ParseError"}) =>
        /\ (error = "MissingColumns") <=> (AbsentAt # {})
        /\ Len(missing) = Cardinality(AbsentAt)
        /\ \A k \in 1..Len(missing) : missing[k] = required[NthAbsent(k)]

C2_Witness ==
    pc = "exit" /\ error = "MissingColumns" /\ missing = <<"z", "site_id">>

\* C3: a source whose header repeats a column name makes the run abort with
\* the duplicate-columns error before any output file is created.
C3_DuplicateHeaderAborts ==
    (source.state = "ok" /\ HasDuplicates(source.header)) =>
        /\ pc \notin {"convert", "makedirs", "write_data", "write_columns",
                      "write_metadata"}
        /\ written = <<>>
        /\ pc = "exit" => error \in {"DuplicateColumns", "MissingColumns"}

\* C4: the sorter written to columns.json follows the column's type before
\* normalization: "date" for a column of date/time values, "number" for an
\* integer or floating-point column, "string" for the rest.
DateTexts == {"2023-01-01", "2023-02-15"}

SourceColumn(j) == RawColumn(SelectSeq(source.rows, NotBlankLine), j)

IsTemporalColumn(j) ==
    Present(SourceColumn(j)) # {} /\ Present(SourceColumn(j)) \subseteq DateTexts

ExpectedSorter(j) ==
    IF IsTemporalColumn(j) THEN "date"
    ELSE IF InferDtype(SourceColumn(j)) \in {"int64", "float64"} THEN "number"
    ELSE "string"

C4_SorterFromOriginalType ==
    ("columns.json" \in Range(written)) =>
        \A j \in 1..Len(source.header) :
            Field(columnsJson.doc[j], "sorter") = "\"" \o ExpectedSorter(j) \o "\""

\* C5: data.json holds one record per table row, in row order, each with one
\* key per column, in column order, holding the cell of that row.
C5_RecordsMatchTable ==
    ("data.json" \in Range(written)) =>
        /\ Len(dataJson.doc) = df.nrows
        /\ \A i \in 1..df.nrows :
              /\ Len(dataJson.doc[i]) = Len(df.columns)
              /\ \A j \in 1..Len(df.columns) :
                    /\ dataJson.doc[i][j][1] = df.columns[j]
                    /\ IsNull(df.values[j][i]) <=>
                          dataJson.doc[i][j][2] \in {"null", "NaN"}
                    /\ ~IsNull(df.values[j][i]) =>
                          dataJson.doc[i][j][2] = JsonValue(df.values[j][i])

C5_Witness ==
    /\ "data.json" \in Range(written)
    /\ df.nrows = 2
    /\ Len(df.columns) = 2
    /\ dataJson.doc[1] # dataJson.doc[2]

\* C6: a missing cell of the table, whatever the type of its column, is
\* written to data.json as the column's key with the value null.
C6_MissingCellIsNull ==
    ("data.json" \in Range(written)) =>
        \A i \in 1..df.nrows : \A j \in 1..Len(df.columns) :
            IsNull(df.values[j][i]) =>
                /\ dataJson.doc[i][j][1] = df.columns[j]
                /\ dataJson.doc[i][j][2] = "null"

\* C7: the normalization pass turns each non-null value of a datetime column
\* into a text of the form YYYY-MM-DDTHH:MM:SSZ, leaves every other column
\* (name, position, type and values) as it was, and does not fail.
IsoCells == {<<"str", t>> : t \in IsoTexts}

C7_PassStep ==
    pc = "convert" =>
        /\ pc' = "makedirs"
        /\ status' = "running"
        /\ df'.columns = df.columns
        /\ df'.nrows = df.nrows
        /\ \A j \in 1..Len(df.columns) :
              IF df.dtypes[j] \in DatetimeDtypes
              THEN \A i \in 1..df.nrows :
                      df.values[j][i] # NaT => df'.values[j][i] \in IsoCells
              ELSE /\ df'.dtypes[j] = df.dtypes[j]
                   /\ df'.values[j] = df.values[j]

C7_NormalizerFrame == [][C7_PassStep]_vars

C7_Witness ==
    /\ pc = "makedirs"
    /\ \E j, k \in 1..Len(df.columns) :
          /\ df.nrows > 0
          /\ \A i \in 1..df.nrows : df.values[j][i] \in IsoCells
          /\ df.dtypes[k] # "object"

\* C8: the files written by a run are a prefix of data.json, columns.json,
\* metadata.json, and a file the run has written stays written, also when
\* a later write fails.
IsPrefix(s, t) == Len(s) <= Len(t) /\ \A k \in 1..Len(s) : s[k] = t[k]

C8_State ==
    /\ IsPrefix(written, EmitOrder)
    /\ \A k \in 1..Len(written) : File(written[k]).state = "complete"

C8_Step == run' = run => IsPrefix(written, written')

C8_WritesArePrefix == [](C8_State) /\ [][C8_Step]_vars

C8_Witness ==
    pc = "exit" /\ error = "OSError" /\ written = <<"data.json">>
        /\ columnsJson.state = "partial"

\* C9: a run ends with success only after writing all three files, and a run
\* that ends after an error ends with failure.
C9_SuccessMeansAllWritten ==
    /\ status = "success" =>
          /\ pc = "exit"
          /\ error = "none"
          /\ written = EmitOrder
          /\ \A k \in 1..3 : File(EmitOrder[k]).state = "complete"
    /\ pc = "exit" => status \in {"success", "failure"}
    /\ (pc = "exit" /\ Len(written) < 3) => status = "failure"
    /\ (pc = "exit" /\ error # "none") => status = "failure"

C9_Witness == status = "success" /\ written = EmitOrder

\* C10: a second run on the same input and parameters rewrites data.json and
\* columns.json with the content the earlier run left.
C10_Step ==
    /\ (run > 1 /\ dataJson.state = "complete" /\ dataJson'.state = "complete")
          => dataJson' = dataJson
    /\ (run > 1 /\ columnsJson.state = "complete" /\ columnsJson'.state = "complete")
          => columnsJson' = columnsJson

C10_RerunSameDocuments == [][C10_Step]_vars

C10_Witness ==
    /\ run = 2
    /\ status = "success"
    /\ clock = 2
    /\ df.nrows > 0

====
